---- MODULE Spec2Model ----
(***************************************************************************)
(* A model of GeoTiffToCoco (src/geo_to_coco.py): the converter that       *)
(* projects geo-referenced building polygons into the pixel space of       *)
(* raster tiles and assembles a COCO dataset with a traceability mapping.  *)
(*                                                                         *)
(* Numbers.  Geographic coordinates and affine coefficients are exact      *)
(* integers (fixed point); int(q) of a quotient is truncation toward zero. *)
(* Areas are kept in units of half a square pixel, so that                 *)
(* 0.5 * abs(s) of an integer shoelace sum s is the integer abs(s).        *)
(* Wall-clock time is a natural number; isoformat() is injective, so a     *)
(* timestamp string is modelled by the instant it prints.                  *)
(*                                                                         *)
(* The model follows create_coco_dataset with convert_tiff_to_jpg = False  *)
(* (the --no-convert command line): the TIFF re-encoding step rewrites the *)
(* tile folder and prompts the user, and is not part of the pipeline the   *)
(* properties below are about.                                             *)
(***************************************************************************)
EXTENDS Integers, Sequences, FiniteSets, TLC

VARIABLES
    folder,             \* input: the raster files of images_folder_path
    table,              \* input: the polygon table at csv_path
    now,                \* the wall clock, as last read
    disk,               \* the output files written so far, by run
    runs,               \* process runs of main() so far
    calls,              \* calls of create_coco_dataset on this converter
    pc,                 \* the position of the Dataset Builder
    min_area,           \* self.min_area
    images_info,        \* self.images_info
    df,                 \* self.df
    categories,         \* self.categories
    coco_format,        \* self.coco_format
    annotation_mapping, \* self.annotation_mapping
    annotation_id,      \* the local counter of create_coco_dataset
    img_cursor,         \* the position of its loop over self.images_info
    probe               \* one (tile, polygon) evaluation of the spatial filter

vars == <<folder, table, now, disk, runs, calls, pc, min_area, images_info, df,
          categories, coco_format, annotation_mapping, annotation_id,
          img_cursor, probe>>

inputVars == <<folder, table>>

converterVars == <<min_area, images_info, df, categories, coco_format,
                   annotation_mapping, annotation_id, img_cursor>>

----------------------------------------------------------------------------
(* Bounds of the model *)

\* largest geographic coordinate of a probed vertex (the smallest is -1)
CoordMax == 3

\* most raster files in the folder
MaxFiles == 2

\* most rows of the polygon table
MaxRows == 2

\* latest instant the wall clock reaches
MaxClock == 2

\* clock instants per calendar year
TicksPerYear == 2

\* most calls of create_coco_dataset on one converter
MaxCalls == 2

----------------------------------------------------------------------------
(* Program constants *)

\* the EPSG code of the polygon table's native CRS (line 121)
EPSG_4326 == 4326

\* min_area = 10, the default of __init__ (line 18), in square pixels
DefaultMinArea == 10

\* Python's None, where a transformer is expected
None == [is_none |-> TRUE, scale |-> 0]

----------------------------------------------------------------------------
(* Arithmetic helpers *)

Abs(n) == IF n < 0 THEN -n ELSE n

Min2(a, b) == IF a <= b THEN a ELSE b

Max2(a, b) == IF a >= b THEN a ELSE b

\* mathematical floor of n / d, d # 0
FloorDiv(n, d) == IF d > 0 THEN n \div d ELSE (-n) \div (-d)

\* Python int(n / d): the quotient truncated toward zero, d # 0
IntTrunc(n, d) ==
    IF (n >= 0) = (d > 0) THEN Abs(n) \div Abs(d) ELSE -(Abs(n) \div Abs(d))

SeqMin(s) == CHOOSE m \in {s[i] : i \in DOMAIN s} : \A i \in DOMAIN s : m <= s[i]

SeqMax(s) == CHOOSE m \in {s[i] : i \in DOMAIN s} : \A i \in DOMAIN s : m >= s[i]

Xs(coords) == [i \in DOMAIN coords |-> coords[i][1]]

Ys(coords) == [i \in DOMAIN coords |-> coords[i][2]]

RECURSIVE SumTo(_, _)
SumTo(f, n) == IF n = 0 THEN 0 ELSE f[n] + SumTo(f, n - 1)

----------------------------------------------------------------------------
(* Coordinate Projector and Polygon Rasterizer *)

\* pyproj's Transformer.from_crs("EPSG:4326", crs, always_xy=True) for a
\* projected CRS, as the linear map it is near the CRS origin: crs.scale
\* projected units per degree.
setup_coordinate_transformer(source_crs) ==
    IF source_crs.epsg # EPSG_4326
    THEN [is_none |-> FALSE, scale |-> source_crs.scale]
    ELSE None

TransformerTransform(transformer, lon, lat) ==
    <<transformer.scale * lon, transformer.scale * lat>>

geographic_to_pixel_floor(lon, lat, transform, transformer) ==
    LET xy == IF transformer # None
              THEN TransformerTransform(transformer, lon, lat)
              ELSE <<lon, lat>>
    IN  <<FloorDiv(xy[1] - transform.c, transform.a),
          FloorDiv(xy[2] - transform.f, transform.e)>>

geographic_to_pixel(lon, lat, transform, transformer) ==
    LET xy == IF transformer # None
              THEN TransformerTransform(transformer, lon, lat)
              ELSE <<lon, lat>>
        col == IntTrunc(xy[1] - transform.c, transform.a)
        row == IntTrunc(xy[2] - transform.f, transform.e)
    IN  <<col, row>>

\* polygon.exterior.coords is the closed exterior ring (first = last vertex)
polygon_to_pixel_coords(polygon, transform, transformer) ==
    [i \in DOMAIN polygon.exterior |->
        geographic_to_pixel(polygon.exterior[i][1], polygon.exterior[i][2],
                            transform, transformer)]

----------------------------------------------------------------------------
(* Geometry Metrics *)

get_bbox_from_coords(coords) ==
    LET x_min == SeqMin(Xs(coords))
        y_min == SeqMin(Ys(coords))
        x_max == SeqMax(Xs(coords))
        y_max == SeqMax(Ys(coords))
    IN  <<x_min, y_min, x_max - x_min, y_max - y_min>>

RECURSIVE Flatten(_)
Flatten(coords) ==
    IF coords = <<>> THEN <<>>
    ELSE <<Head(coords)[1], Head(coords)[2]>> \o Flatten(Tail(coords))

get_segmentation_from_coords(coords) == <<Flatten(coords)>>

\* the shoelace sum over i in range(-1, len(x) - 1): index -1 is the last
\* vertex.  The result is 0.5 * abs(sum) in half square pixels.
calculate_area(coords) ==
    LET n == Len(coords)
        prev(i) == IF i = 1 THEN n ELSE i - 1
        term == [i \in 1..n |->
                    coords[prev(i)][1] * coords[i][2]
                  - coords[i][1] * coords[prev(i)][2]]
    IN  Abs(SumTo(term, n))

----------------------------------------------------------------------------
(* Plane geometry behind shapely's polygon.intersects(image_poly): the two  *)
(* closed regions share a point iff a vertex of the ring lies in the        *)
(* rectangle, a corner of the rectangle lies in the polygon, or an edge of  *)
(* one meets an edge of the other.                                          *)

Orient(p, q, r) ==
    (q[1] - p[1]) * (r[2] - p[2]) - (q[2] - p[2]) * (r[1] - p[1])

\* r lies on the closed segment pq
OnSegment(p, q, r) ==
    /\ Orient(p, q, r) = 0
    /\ Min2(p[1], q[1]) <= r[1] /\ r[1] <= Max2(p[1], q[1])
    /\ Min2(p[2], q[2]) <= r[2] /\ r[2] <= Max2(p[2], q[2])

Sign(n) == IF n > 0 THEN 1 ELSE IF n < 0 THEN -1 ELSE 0

SegmentsIntersect(p1, p2, p3, p4) ==
    \/ /\ Sign(Orient(p1, p2, p3)) * Sign(Orient(p1, p2, p4)) < 0
       /\ Sign(Orient(p3, p4, p1)) * Sign(Orient(p3, p4, p2)) < 0
    \/ OnSegment(p1, p2, p3)
    \/ OnSegment(p1, p2, p4)
    \/ OnSegment(p3, p4, p1)
    \/ OnSegment(p3, p4, p2)

\* the edges of a closed ring (ring[1] = ring[Len(ring)])
RingEdges(ring) == {<<ring[i], ring[i + 1]>> : i \in 1..(Len(ring) - 1)}

\* the edge uv crosses the horizontal ray from p to the right
CrossesRay(p, u, v) ==
    /\ (u[2] > p[2]) # (v[2] > p[2])
    /\ IF v[2] > u[2]
       THEN (p[1] - u[1]) * (v[2] - u[2]) < (p[2] - u[2]) * (v[1] - u[1])
       ELSE (p[1] - u[1]) * (v[2] - u[2]) > (p[2] - u[2]) * (v[1] - u[1])

PointInPolygon(p, ring) ==
    \/ \E e \in RingEdges(ring) : OnSegment(e[1], e[2], p)
    \/ Cardinality({i \in 1..(Len(ring) - 1) :
                        CrossesRay(p, ring[i], ring[i + 1])}) % 2 = 1

PointInBounds(p, b) ==
    /\ b.left <= p[1] /\ p[1] <= b.right
    /\ b.bottom <= p[2] /\ p[2] <= b.top

\* line 180: the rectangle of the image bounds, as a closed ring
ImagePoly(image_bounds) ==
    << <<image_bounds.left, image_bounds.bottom>>,
       <<image_bounds.right, image_bounds.bottom>>,
       <<image_bounds.right, image_bounds.top>>,
       <<image_bounds.left, image_bounds.top>>,
       <<image_bounds.left, image_bounds.bottom>> >>

polygon_intersects_image(polygon, image_bounds) ==
    LET ring == polygon.exterior
        image_poly == ImagePoly(image_bounds)
    IN  \/ \E i \in DOMAIN ring : PointInBounds(ring[i], image_bounds)
        \/ \E i \in DOMAIN image_poly : PointInPolygon(image_poly[i], ring)
        \/ \E e \in RingEdges(ring) : \E g \in RingEdges(image_poly) :
               SegmentsIntersect(e[1], e[2], g[1], g[2])

----------------------------------------------------------------------------
(* Spatial Filter *)

\* lines 207-208: the projected ring lies entirely outside the image
OutsideImage(coords, image_info) ==
    \/ SeqMax(Xs(coords)) < 0
    \/ SeqMin(Xs(coords)) > image_info.width
    \/ SeqMax(Ys(coords)) < 0
    \/ SeqMin(Ys(coords)) > image_info.height

\* np.clip(v, lo, hi)
NpClip(v, lo, hi) == Min2(Max2(v, lo), hi)

ClipCoordsSwapped(coords, image_info) ==
    [i \in DOMAIN coords |->
        <<NpClip(coords[i][1], 0, image_info.height),
          NpClip(coords[i][2], 0, image_info.width)>>]

\* lines 212-213: each axis clamped into the image on its own
ClipCoords(coords, image_info) ==
    [i \in DOMAIN coords |->
        <<NpClip(coords[i][1], 0, image_info.width),
          NpClip(coords[i][2], 0, image_info.height)>>]

AboveMinAreaIgnored(coords, threshold) == calculate_area(coords) > 0

\* area > self.min_area, the area being 0.5 * calculate_area
AboveMinArea(coords, threshold) == calculate_area(coords) > 2 * threshold

\* the body of the loop of filter_valid_polygons_for_image for one row:
\* the polygons it appends (none or one)
FilterRow(image_info, row, idx, threshold) ==
    LET polygon == row.geometry
        transformer == setup_coordinate_transformer(image_info.crs)
        pixel_coords == polygon_to_pixel_coords(polygon, image_info.transform,
                                                transformer)
        clipped == ClipCoords(pixel_coords, image_info)
    IN  IF ~polygon_intersects_image(polygon, image_info.bounds) THEN <<>>
        ELSE IF OutsideImage(pixel_coords, image_info) THEN <<>>
        ELSE IF AboveMinArea(clipped, threshold)
             THEN << [building |-> row.building,
                      coords |-> clipped,
                      original_idx |-> idx] >>
             ELSE <<>>

RECURSIVE FilterRows(_, _, _, _)
FilterRows(image_info, frame, n, threshold) ==
    IF n = 0 THEN <<>>
    ELSE FilterRows(image_info, frame, n - 1, threshold)
         \o FilterRow(image_info, frame[n], n - 1, threshold)

\* df.iterrows() yields the rows in order with their index 0, 1, ...
filter_valid_polygons_for_image(image_info, frame, threshold) ==
    FilterRows(image_info, frame, Len(frame), threshold)

\* rasterio's src.bounds of a north-up raster
RasterBounds(transform, width, height) ==
    [left |-> transform.c,
     bottom |-> transform.f + transform.e * height,
     right |-> transform.c + transform.a * width,
     top |-> transform.f]

----------------------------------------------------------------------------
(* Inputs: raster files and polygon-table rows *)

Transform(a, e, c, f) == [a |-> a, e |-> e, c |-> c, f |-> f]

Crs4326 == [epsg |-> EPSG_4326, scale |-> 1]

\* a projected CRS with 2 units per degree
CrsProjected == [epsg |-> 3857, scale |-> 2]

RasterFile(name, readable, width, height, crs, transform) ==
    [name |-> name, readable |-> readable, width |-> width, height |-> height,
     crs |-> crs, transform |-> transform]

\* Files are named by a number; sorted() orders them by it.
\*   1: a file rasterio cannot open
\*   2: an 8 x 8 tile over [0,8] x [0,8] degrees
\*   3: the 8 x 8 tile east of it, over [8,16] x [0,8]
\*   4: an 8 x 8 tile in the projected CRS, over [0,4] x [0,4] degrees
FileCatalogue ==
    { RasterFile(1, FALSE, 0, 0, Crs4326, Transform(1, -1, 0, 0)),
      RasterFile(2, TRUE, 8, 8, Crs4326, Transform(1, -1, 0, 8)),
      RasterFile(3, TRUE, 8, 8, Crs4326, Transform(1, -1, 8, 8)),
      RasterFile(4, TRUE, 8, 8, CrsProjected, Transform(1, -1, 0, 8)) }

Folders == {fs \in SUBSET FileCatalogue : Cardinality(fs) <= MaxFiles}

Rect(x0, y0, x1, y1) ==
    << <<x0, y0>>, <<x1, y0>>, <<x1, y1>>, <<x0, y1>>, <<x0, y0>> >>

\* A geometry cell of the CSV: the WKT text by its tag and its rings, or NaN
\* for an empty cell.
Wkt(tag, rings) == [tag |-> tag, rings |-> rings]

CsvRow(building, wkt) == [building |-> building, geometry |-> wkt]

RowCatalogue ==
    { CsvRow("house", Wkt("POLYGON", <<Rect(1, 1, 5, 5)>>)),
      CsvRow("shed",  Wkt("POLYGON", <<Rect(3, 2, 13, 6)>>)),
      CsvRow("house", Wkt("POLYGON", <<Rect(5, 5, 7, 7)>>)),
      CsvRow("shed",  Wkt("NAN", <<>>)),
      CsvRow("kiosk", Wkt("POINT", <<>>)),
      CsvRow("house", Wkt("MULTIPOLYGON", <<Rect(1, 1, 5, 5), Rect(9, 1, 13, 5)>>)),
      CsvRow("shed",  Wkt("POLYGON", <<Rect(1, 1, 6, 6), Rect(2, 2, 5, 5)>>)),
      CsvRow("house", Wkt("GARBAGE", <<>>)) }

RECURSIVE SeqsUpTo(_, _)
SeqsUpTo(S, n) ==
    IF n = 0 THEN {<<>>}
    ELSE LET shorter == SeqsUpTo(S, n - 1)
         IN  shorter \cup {Append(q, x) : q \in shorter, x \in S}

\* a CSV file: whether it has the 'building' and 'geometry' columns, and
\* its rows
MissingColumns == [has_columns |-> FALSE, rows |-> <<>>]

Tables ==
    {[has_columns |-> TRUE, rows |-> rows] : rows \in SeqsUpTo(RowCatalogue, MaxRows)}
    \cup {MissingColumns}

----------------------------------------------------------------------------
(* The wall clock *)

\* datetime.now() returns the instant `now`.  The clock is read by __init__
\* (lines 31 and 33) and by load_images (line 79) only: an instant that
\* passes anywhere else shows at the next read and not before, so time is
\* let pass where a read comes next.
Tick ==
    /\ pc \in {"Unloaded", "Serialized", "Aborted"}
    /\ now < MaxClock
    /\ now' = now + 1
    /\ UNCHANGED <<inputVars, disk, runs, calls, pc, converterVars, probe>>

\* datetime.now().year
YearOf(t) == t \div TicksPerYear

----------------------------------------------------------------------------
(* __init__ *)

\* lines 27-39
EmptyCoco(t) ==
    [info |-> [description |-> "Dataset for buildings type of Morocco",
               version |-> "1.0",
               year |-> YearOf(t),
               contributor |-> "TFERHAN",
               date_created |-> t],
     licenses |-> <<>>,
     images |-> <<>>,
     annotations |-> <<>>,
     categories |-> <<>>]

----------------------------------------------------------------------------
(* load_images *)

RECURSIVE SortByName(_)
SortByName(fs) ==
    IF fs = {} THEN <<>>
    ELSE LET first == CHOOSE x \in fs : \A y \in fs : x.name <= y.name
         IN  <<first>> \o SortByName(fs \ {first})

Reverse(q) == [i \in DOMAIN q |-> q[Len(q) + 1 - i]]

\* the files in the order the file system lists them, which differs from
\* one run to the next
ImageFilesAsListed ==
    IF runs % 2 = 0 THEN Reverse(SortByName(folder)) ELSE SortByName(folder)

\* line 51: sorted(image_files)
ImageFiles == SortByName(folder)

\* lines 60-69, idx counting from 0
ImageInfo(idx, src) ==
    [id |-> idx + 1,
     filename |-> src.name,
     width |-> src.width,
     height |-> src.height,
     crs |-> src.crs,
     transform |-> src.transform,
     bounds |-> RasterBounds(src.transform, src.width, src.height)]

CocoImageInfoZeroBased(idx, src, t) ==
    [id |-> idx,
     width |-> src.width,
     height |-> src.height,
     file_name |-> src.name,
     license |-> 1,
     date_captured |-> t]

\* lines 73-80
CocoImageInfo(idx, src, t) ==
    [id |-> idx + 1,
     width |-> src.width,
     height |-> src.height,
     file_name |-> src.name,
     license |-> 1,
     date_captured |-> t]

\* the positions in image_files of the files rasterio opens, in order
RECURSIVE Opened(_, _)
Opened(files, n) ==
    IF n = 0 THEN <<>>
    ELSE Opened(files, n - 1) \o (IF files[n].readable THEN <<n>> ELSE <<>>)

LoadImages ==
    /\ pc = "Unloaded"
    /\ LET files == ImageFiles
           opened == Opened(files, Len(files))
       IN  /\ images_info' = [k \in DOMAIN opened |->
                                 ImageInfo(opened[k] - 1, files[opened[k]])]
           /\ coco_format' =
                [coco_format EXCEPT !.images = @ \o
                    [k \in DOMAIN opened |->
                        CocoImageInfo(opened[k] - 1, files[opened[k]], now)]]
    /\ pc' = "TilesLoaded"
    /\ UNCHANGED <<inputVars, now, disk, runs, calls, min_area, df, categories,
                   annotation_mapping, annotation_id, img_cursor, probe>>

----------------------------------------------------------------------------
(* load_csv *)

\* shapely.wkt.loads on a geometry cell.  A cell that is not a string (NaN)
\* is passed through by the lambda of line 97; text that is not WKT raises.
Geometry(geom_type, exterior, interiors, geoms) ==
    [geom_type |-> geom_type, exterior |-> exterior, interiors |-> interiors,
     geoms |-> geoms]

\* the exception loads raises, in place of the geometry it does not return
ParseError == Geometry("WKTReadingError", <<>>, <<>>, <<>>)

WktLoads(cell) ==
    CASE cell.tag = "NAN" -> Geometry("NaN", <<>>, <<>>, <<>>)
      [] cell.tag = "GARBAGE" -> ParseError
      [] cell.tag = "POINT" -> Geometry("Point", <<>>, <<>>, <<>>)
      [] cell.tag = "POLYGON" ->
            Geometry("Polygon", Head(cell.rings), Tail(cell.rings), <<>>)
      [] cell.tag = "MULTIPOLYGON" ->
            Geometry("MultiPolygon", <<>>, <<>>, cell.rings)

\* line 100: geom is not None and hasattr(geom, 'exterior')
ValidGeometry(geom) == geom.geom_type = "Polygon"

\* lines 97-101: the rows kept, re-indexed from 0 by reset_index(drop=True)
RECURSIVE ValidRows(_)
ValidRows(rows) ==
    IF rows = <<>> THEN <<>>
    ELSE LET geom == WktLoads(Head(rows).geometry)
         IN  (IF ValidGeometry(geom)
              THEN << [building |-> Head(rows).building, geometry |-> geom] >>
              ELSE <<>>) \o ValidRows(Tail(rows))

\* line 104: df['building'].unique(), in order of first appearance
RECURSIVE UniqueTypes(_)
UniqueTypes(frame) ==
    IF frame = <<>> THEN <<>>
    ELSE LET before == UniqueTypes(SubSeq(frame, 1, Len(frame) - 1))
             last == frame[Len(frame)].building
         IN  IF \E i \in DOMAIN before : before[i] = last
             THEN before
             ELSE Append(before, last)

\* line 105: {building_type: idx + 1}
CategoryIds(unique_types) ==
    [name \in {unique_types[i] : i \in DOMAIN unique_types} |->
        CHOOSE i \in DOMAIN unique_types : unique_types[i] = name]

\* lines 108-114
CategoryInfos(unique_types) ==
    [i \in DOMAIN unique_types |->
        [id |-> i, name |-> unique_types[i], supercategory |-> "building"]]

LoadCsvRaises ==
    \/ ~table.has_columns
    \/ \E i \in DOMAIN table.rows : WktLoads(table.rows[i].geometry) = ParseError

LoadCsv ==
    /\ pc = "TilesLoaded"
    /\ IF LoadCsvRaises
       THEN /\ pc' = "Aborted"
            /\ UNCHANGED <<df, categories, coco_format>>
       ELSE LET frame == ValidRows(table.rows)
                unique_types == UniqueTypes(frame)
            IN  /\ df' = frame
                /\ categories' = CategoryIds(unique_types)
                /\ coco_format' = [coco_format EXCEPT !.categories =
                                      @ \o CategoryInfos(unique_types)]
                /\ pc' = "PolygonsLoaded"
    /\ UNCHANGED <<inputVars, now, disk, runs, calls, min_area, images_info,
                   annotation_mapping, annotation_id, img_cursor, probe>>

----------------------------------------------------------------------------
(* create_coco_dataset: the assembly loop *)

StartAssembly ==
    /\ pc = "PolygonsLoaded"
    /\ annotation_id' = 1
    /\ img_cursor' = 1
    /\ pc' = "Assembling"
    /\ UNCHANGED <<inputVars, now, disk, runs, calls, min_area, images_info,
                   df, categories, coco_format, annotation_mapping, probe>>

NextAnnotationIdStuck(ann_id) == ann_id

\* line 350
NextAnnotationId(ann_id) == ann_id + 1

RECURSIVE IdAfter(_, _)
IdAfter(ann_id, k) ==
    IF k = 0 THEN ann_id ELSE NextAnnotationId(IdAfter(ann_id, k - 1))

\* lines 319-334
Annotation(ann_id, image_info, polygon_data, cats) ==
    [id |-> ann_id,
     image_id |-> image_info.id,
     category_id |-> cats[polygon_data.building],
     segmentation |-> get_segmentation_from_coords(polygon_data.coords),
     area |-> calculate_area(polygon_data.coords),
     bbox |-> get_bbox_from_coords(polygon_data.coords),
     iscrowd |-> 0]

MappingRecordAfterIncrement(ann_id, image_info, polygon_data, cats) ==
    [annotation_id |-> ann_id + 1,
     image_id |-> image_info.id,
     image_filename |-> image_info.filename,
     polygon_csv_idx |-> polygon_data.original_idx,
     category_name |-> polygon_data.building,
     category_id |-> cats[polygon_data.building],
     bbox |-> get_bbox_from_coords(polygon_data.coords),
     area |-> calculate_area(polygon_data.coords)]

\* lines 339-348
MappingRecord(ann_id, image_info, polygon_data, cats) ==
    [annotation_id |-> ann_id,
     image_id |-> image_info.id,
     image_filename |-> image_info.filename,
     polygon_csv_idx |-> polygon_data.original_idx,
     category_name |-> polygon_data.building,
     category_id |-> cats[polygon_data.building],
     bbox |-> get_bbox_from_coords(polygon_data.coords),
     area |-> calculate_area(polygon_data.coords)]

\* one pass of the loop of line 309 over self.images_info
AssembleImage ==
    /\ pc = "Assembling"
    /\ img_cursor <= Len(images_info)
    /\ LET image_info == images_info[img_cursor]
           valid_polygons ==
               filter_valid_polygons_for_image(image_info, df, min_area)
           id_of(k) == IdAfter(annotation_id, k - 1)
       IN  /\ coco_format' = [coco_format EXCEPT !.annotations = @ \o
                  [k \in DOMAIN valid_polygons |->
                      Annotation(id_of(k), image_info, valid_polygons[k],
                                 categories)]]
           /\ annotation_mapping' = annotation_mapping \o
                  [k \in DOMAIN valid_polygons |->
                      MappingRecord(id_of(k), image_info, valid_polygons[k],
                                    categories)]
           /\ annotation_id' = IdAfter(annotation_id, Len(valid_polygons))
    /\ img_cursor' = img_cursor + 1
    /\ UNCHANGED <<inputVars, now, disk, runs, calls, pc, min_area,
                   images_info, df, categories, probe>>

FinishAssembly ==
    /\ pc = "Assembling"
    /\ img_cursor > Len(images_info)
    /\ pc' = "Assembled"
    /\ UNCHANGED <<inputVars, now, disk, runs, calls, converterVars, probe>>

----------------------------------------------------------------------------
(* create_coco_dataset: serialization (lines 356-363) *)

NoFile == [written |-> FALSE, dataset |-> <<>>, mapping |-> <<>>]

\* the runs of main() that are compared: a first and a second
RunIds == {1, 2}

\* json.dump prints a structure key by key in construction order: two dumps
\* are the same bytes iff the structures are equal
Serialize ==
    /\ pc = "Assembled"
    /\ disk' = [disk EXCEPT ![runs] =
                   [written |-> TRUE, dataset |-> coco_format,
                    mapping |-> annotation_mapping]]
    /\ pc' = "Serialized"
    /\ UNCHANGED <<inputVars, now, runs, calls, converterVars, probe>>

ProbeIdle ==
    [stage |-> "idle", image_info |-> <<>>, polygon |-> <<>>,
     threshold |-> 0, pixel_coords |-> <<>>, coords |-> <<>>, area |-> 0]

----------------------------------------------------------------------------
(* main(): one process run constructs a converter and calls it once; run r  *)
(* is given the output path r                                               *)

\* the state main() starts from, on the given inputs
Start(folders, tables) ==
    /\ folder \in folders
    /\ table \in tables
    /\ now = 0
    /\ disk = [r \in RunIds |-> NoFile]
    /\ runs = 1
    /\ calls = 1
    /\ pc = "Unloaded"
    /\ min_area = DefaultMinArea
    /\ images_info = <<>>
    /\ df = <<>>
    /\ categories = <<>>
    /\ annotation_mapping = <<>>
    /\ coco_format = EmptyCoco(now)
    /\ annotation_id = 0
    /\ img_cursor = 0
    /\ probe = ProbeIdle

Init == Start(Folders, Tables)

StartProcess ==
    /\ pc \in {"Serialized", "Aborted"}
    /\ runs + 1 \in RunIds
    /\ runs' = runs + 1
    /\ calls' = 1
    /\ pc' = "Unloaded"
    /\ coco_format' = EmptyCoco(now)
    /\ min_area' = DefaultMinArea
    /\ images_info' = <<>>
    /\ df' = <<>>
    /\ categories' = <<>>
    /\ annotation_mapping' = <<>>
    /\ annotation_id' = 0
    /\ img_cursor' = 0
    /\ UNCHANGED <<inputVars, now, disk, probe>>

\* a second call of create_coco_dataset on the converter that has returned
CallAgain ==
    /\ pc = "Serialized"
    /\ calls < MaxCalls
    /\ calls' = calls + 1
    /\ pc' = "Unloaded"
    /\ UNCHANGED <<inputVars, now, disk, runs, converterVars, probe>>

\* one run of main(), within one instant of the clock
Next ==
    \/ LoadImages
    \/ LoadCsv
    \/ StartAssembly
    \/ AssembleImage
    \/ FinishAssembly
    \/ Serialize

Spec == Init /\ [][Next]_vars

\* runs of main() one after the other on the same inputs, as time passes;
\* the tables are those of the rows that load: two polygons and an empty cell
RunRows ==
    {row \in RowCatalogue :
        \/ row.geometry.tag = "NAN"
        \/ row.geometry.tag = "POLYGON" /\ Len(row.geometry.rings) = 1
                                        /\ row.geometry.rings[1][1][1] < 5}

RunTables ==
    {[has_columns |-> TRUE, rows |-> rows] : rows \in SeqsUpTo(RunRows, MaxRows)}

InitRuns == Start(Folders, RunTables)

NextRuns == Next \/ Tick \/ StartProcess

SpecRuns == InitRuns /\ [][NextRuns]_vars

\* one converter, create_coco_dataset called on it more than once
NextReuse == Next \/ CallAgain

SpecReuse == Init /\ [][NextReuse]_vars

----------------------------------------------------------------------------
(* The spatial filter on one (tile, polygon) pair, step by step: the body   *)
(* of the loop of filter_valid_polygons_for_image, over every triangle of   *)
(* a small grid and three small tiles                                       *)

Grid == {<<x, y>> : x \in (-1)..CoordMax, y \in (-1)..CoordMax}

\* the closed rings of the triangles that enclose some area
ProbeRings ==
    {<<p, q, r, p>> : p \in Grid, q \in Grid, r \in Grid} \ {ring \in
        {<<p, q, r, p>> : p \in Grid, q \in Grid, r \in Grid} :
            Orient(ring[1], ring[2], ring[3]) = 0}

\* a 3 x 2 tile of unit pixels over [0,3] x [0,2], a 1 x 1 tile of 2-degree
\* pixels over [0,2] x [0,2], and a 4 x 2 tile in the projected CRS
ProbeTiles ==
    { ImageInfo(0, RasterFile(1, TRUE, 3, 2, Crs4326, Transform(1, -1, 0, 2))),
      ImageInfo(0, RasterFile(2, TRUE, 1, 1, Crs4326, Transform(2, -2, 0, 2))),
      ImageInfo(0, RasterFile(3, TRUE, 4, 2, CrsProjected, Transform(1, -1, 0, 2))) }

ProbeMinAreas == {0}

InitGeom ==
    /\ folder = {}
    /\ table = [has_columns |-> TRUE, rows |-> <<>>]
    /\ now = 0
    /\ disk = [r \in RunIds |-> NoFile]
    /\ runs = 1
    /\ calls = 1
    /\ pc = "Idle"
    /\ min_area = DefaultMinArea
    /\ images_info = <<>>
    /\ df = <<>>
    /\ categories = <<>>
    /\ annotation_mapping = <<>>
    /\ coco_format = EmptyCoco(now)
    /\ annotation_id = 0
    /\ img_cursor = 0
    /\ \E tile \in ProbeTiles, ring \in ProbeRings, m \in ProbeMinAreas :
          probe = [ProbeIdle EXCEPT !.stage = "input",
                                    !.image_info = tile,
                                    !.polygon = Geometry("Polygon", ring, <<>>, <<>>),
                                    !.threshold = m]

\* lines 198-202: the coarse test, then the projection
ProbeProject ==
    /\ probe.stage = "input"
    /\ IF ~polygon_intersects_image(probe.polygon, probe.image_info.bounds)
       THEN probe' = [probe EXCEPT !.stage = "no_intersection"]
       ELSE probe' = [probe EXCEPT
              !.stage = "projected",
              !.pixel_coords = polygon_to_pixel_coords(probe.polygon,
                  probe.image_info.transform,
                  setup_coordinate_transformer(probe.image_info.crs))]
    /\ UNCHANGED <<inputVars, now, disk, runs, calls, pc, converterVars>>

\* lines 207-213: the fine test, then the clamp
ProbeClip ==
    /\ probe.stage = "projected"
    /\ IF OutsideImage(probe.pixel_coords, probe.image_info)
       THEN probe' = [probe EXCEPT !.stage = "outside"]
       ELSE probe' = [probe EXCEPT
              !.stage = "clipped",
              !.coords = ClipCoords(probe.pixel_coords, probe.image_info)]
    /\ UNCHANGED <<inputVars, now, disk, runs, calls, pc, converterVars>>

\* lines 216-217: the area and the threshold
ProbeThreshold ==
    /\ probe.stage = "clipped"
    /\ probe' = [probe EXCEPT
          !.area = calculate_area(probe.coords),
          !.stage = IF AboveMinArea(probe.coords, probe.threshold)
                    THEN "kept" ELSE "too_small"]
    /\ UNCHANGED <<inputVars, now, disk, runs, calls, pc, converterVars>>

NextGeom == ProbeProject \/ ProbeClip \/ ProbeThreshold

SpecGeom == InitGeom /\ [][NextGeom]_vars

----------------------------------------------------------------------------
(* Properties *)

Annotations == coco_format.annotations

AssemblyStarted == pc \in {"Assembling", "Assembled", "Serialized"}

\* C1: the annotation identifiers are exactly 1..N, N the number of
\* annotations, with no gap and no repeat, and the counter stands at N + 1:
\* a (tile, polygon) pair the filter discards consumes no identifier.
C1_IdentifiersContiguous ==
    /\ {Annotations[k].id : k \in DOMAIN Annotations} = 1..Len(Annotations)
    /\ \A i \in DOMAIN Annotations : \A j \in DOMAIN Annotations :
          i # j => Annotations[i].id # Annotations[j].id
    /\ AssemblyStarted => annotation_id = Len(Annotations) + 1

\* a finished run with two annotations or more, in which a tile discarded
\* row 0 and kept row 1
C1_Witness ==
    /\ pc = "Serialized"
    /\ Len(Annotations) >= 2
    /\ \E k \in DOMAIN annotation_mapping :
          /\ annotation_mapping[k].polygon_csv_idx = 1
          /\ k > 1 => annotation_mapping[k - 1].image_id
                          # annotation_mapping[k].image_id

\* C2: every annotation's image_id is the id of an entry of the images list
\* and its category_id the id of an entry of the categories list, also when
\* raster files failed to load.
C2_ReferentialIntegrity ==
    \A k \in DOMAIN Annotations :
        /\ \E i \in DOMAIN coco_format.images :
              coco_format.images[i].id = Annotations[k].image_id
        /\ \E c \in DOMAIN coco_format.categories :
              coco_format.categories[c].id = Annotations[k].category_id

\* a finished run with an annotation on a tile that follows a file rasterio
\* could not open
C2_Witness ==
    /\ pc = "Serialized"
    /\ Len(coco_format.images) < Cardinality(folder)
    /\ \E k \in DOMAIN Annotations : Annotations[k].image_id > 1

----------------------------------------------------------------------------

Written == {r \in DOMAIN disk : disk[r].written}

\* C3 as stated: any two runs on the same inputs write the same bytes.
C3_ByteIdentical ==
    \A r \in Written : \A q \in Written : disk[r] = disk[q]

\* the output with its three wall-clock fields blanked
WithoutTimestamps(file) ==
    [file EXCEPT
        !.dataset.info.year = 0,
        !.dataset.info.date_created = 0,
        !.dataset.images = [i \in DOMAIN @ |-> [@[i] EXCEPT !.date_captured = 0]]]

\* C3 amended: two runs on the same inputs write the same dataset and the
\* same mapping except for info.year, info.date_created and the
\* date_captured of each image, which are the time of the run.
C3_IdenticalUpToTimestamps ==
    \A r \in Written : \A q \in Written :
        WithoutTimestamps(disk[r]) = WithoutTimestamps(disk[q])

\* two runs at different times have written annotations of two tiles
C3_Witness ==
    /\ Cardinality(Written) >= 2
    /\ \E r \in Written : \E q \in Written :
          /\ disk[r] # disk[q]
          /\ Len(disk[r].dataset.images) >= 2
          /\ Len(disk[r].dataset.annotations) >= 2

----------------------------------------------------------------------------

ProbeClipped == probe.stage \in {"clipped", "kept", "too_small"}

ProbeNeededClipping == ProbeClipped /\ probe.coords # probe.pixel_coords

\* C4 as stated: for a ring that survives the fine test and has a vertex
\* outside the image, the shoelace area of the clamped ring is at most the
\* shoelace area of the projected ring.
C4_AreaMonotone ==
    ProbeNeededClipping =>
        calculate_area(probe.coords) <= calculate_area(probe.pixel_coords)

BboxInside(inner, outer) ==
    /\ outer[1] <= inner[1]
    /\ outer[2] <= inner[2]
    /\ inner[1] + inner[3] <= outer[1] + outer[3]
    /\ inner[2] + inner[4] <= outer[2] + outer[4]

\* C4 amended: for such a ring the bounding box of the clamped ring lies
\* inside the bounding box of the projected ring, so its width, its height
\* and its bounding-box area do not grow; the shoelace area itself may grow.
C4_BoundingBoxShrinks ==
    ProbeNeededClipping =>
        BboxInside(get_bbox_from_coords(probe.coords),
                   get_bbox_from_coords(probe.pixel_coords))

\* a ring that needed clipping, whose clamped area exceeds its projected area
C4_Witness ==
    /\ ProbeNeededClipping
    /\ probe.stage = "kept"
    /\ calculate_area(probe.coords) > calculate_area(probe.pixel_coords)

----------------------------------------------------------------------------

HasMultiRing(row) ==
    \/ row.geometry.tag = "MULTIPOLYGON"
    \/ row.geometry.tag = "POLYGON" /\ Len(row.geometry.rings) > 1

TableHasMultiRing == \E i \in DOMAIN table.rows : HasMultiRing(table.rows[i])

\* C5: a table row whose geometry has several rings or holes makes the run
\* abort: the run does not complete, and no annotation is built from the
\* exterior ring of a polygon whose holes were dropped.
C5_MultiRingAborts ==
    /\ TableHasMultiRing => pc # "Serialized"
    /\ \A k \in DOMAIN annotation_mapping :
          df[annotation_mapping[k].polygon_csv_idx + 1].geometry.interiors = <<>>

\* C6: a load error on one item does not abort the run: with the required
\* columns present and no multi-ring geometry, a file that cannot be opened
\* or a row whose geometry cannot be parsed is skipped and the run goes on.
C6_ItemErrorsDoNotAbort ==
    (table.has_columns /\ ~TableHasMultiRing) => pc # "Aborted"

----------------------------------------------------------------------------

ProbeProjected == probe.stage \in {"projected", "outside"} \/ ProbeClipped

\* the coordinates of vertex i in the CRS of the tile
ProbeXY(i) ==
    LET transformer == setup_coordinate_transformer(probe.image_info.crs)
        v == probe.polygon.exterior[i]
    IN  IF transformer # None
        THEN TransformerTransform(transformer, v[1], v[2])
        ELSE v

\* C7 as stated: col = floor((x - c) / a) and row = floor((y - f) / e) for
\* every point and transform, negative quotients included.
C7_Floor ==
    ProbeProjected =>
        \A i \in DOMAIN probe.pixel_coords :
            LET t == probe.image_info.transform
            IN  /\ probe.pixel_coords[i][1] = FloorDiv(ProbeXY(i)[1] - t.c, t.a)
                /\ probe.pixel_coords[i][2] = FloorDiv(ProbeXY(i)[2] - t.f, t.e)

\* q is the quotient n / d rounded toward zero
RoundsTowardZero(q, n, d) ==
    /\ Abs(q) * Abs(d) <= Abs(n)
    /\ Abs(n) < (Abs(q) + 1) * Abs(d)
    /\ q # 0 => Sign(q) = Sign(n) * Sign(d)

\* C7 amended: col is (x - c) / a and row is (y - f) / e rounded toward
\* zero; that is the floor when the quotient is not negative, and a vertex
\* less than one pixel outside the tile on the negative side maps to column
\* or row 0.
C7_TruncatesTowardZero ==
    ProbeProjected =>
        \A i \in DOMAIN probe.pixel_coords :
            LET t == probe.image_info.transform
            IN  /\ RoundsTowardZero(probe.pixel_coords[i][1],
                                    ProbeXY(i)[1] - t.c, t.a)
                /\ RoundsTowardZero(probe.pixel_coords[i][2],
                                    ProbeXY(i)[2] - t.f, t.e)

\* a projected vertex left of the tile origin by less than a pixel, at
\* column 0
C7_Witness ==
    /\ ProbeProjected
    /\ \E i \in DOMAIN probe.pixel_coords :
          LET t == probe.image_info.transform
              n == ProbeXY(i)[1] - t.c
          IN  /\ n < 0
              /\ n % t.a # 0
              /\ probe.pixel_coords[i][1] = 0

----------------------------------------------------------------------------

ImageInfoOfId(id) == CHOOSE im \in {images_info[i] : i \in DOMAIN images_info} : im.id = id

\* mapping record m was produced from row number csv_idx of the input table
ProducedFromInputRow(m, csv_idx) ==
    /\ csv_idx + 1 \in DOMAIN table.rows
    /\ LET row == table.rows[csv_idx + 1]
           geom == WktLoads(row.geometry)
       IN  /\ ValidGeometry(geom)
           /\ row.building = m.category_name
           /\ LET kept == FilterRow(ImageInfoOfId(m.image_id),
                                    [building |-> row.building, geometry |-> geom],
                                    csv_idx, min_area)
              IN  /\ kept # <<>>
                  /\ get_bbox_from_coords(kept[1].coords) = m.bbox
                  /\ calculate_area(kept[1].coords) = m.area

\* C8: polygon_csv_idx of every mapping record is the index of the row of
\* the input table from which the annotation was produced, also when
\* earlier rows were excluded at load time.
C8_IndexIsInputRow ==
    \A k \in DOMAIN annotation_mapping :
        ProducedFromInputRow(annotation_mapping[k],
                             annotation_mapping[k].polygon_csv_idx)

----------------------------------------------------------------------------

PipelineOrder ==
    {<<"Unloaded", "TilesLoaded">>, <<"TilesLoaded", "PolygonsLoaded">>,
     <<"TilesLoaded", "Aborted">>, <<"PolygonsLoaded", "Assembling">>,
     <<"Assembling", "Assembling">>, <<"Assembling", "Assembled">>,
     <<"Assembled", "Serialized">>}

DatasetLists ==
    <<coco_format.images, coco_format.annotations, coco_format.categories>>

\* C9: on one converter the states are visited in the order Unloaded,
\* TilesLoaded, PolygonsLoaded, Assembling, Assembled, Serialized, and a
\* later call of create_coco_dataset neither re-enters Assembling nor
\* appends images, categories or annotations to the dataset.
C9_SingleShot ==
    [][ /\ calls' = 1 /\ pc' # pc => <<pc, pc'>> \in PipelineOrder
        /\ calls > 1 => /\ pc' # "Assembling"
                        /\ DatasetLists' = DatasetLists ]_vars

----------------------------------------------------------------------------

\* C10: the mapping has one record per annotation, in identifier order; the
\* i-th record carries the id, image id, category id, bbox and area of the
\* i-th annotation; annotations are ordered by ascending tile id and, within
\* a tile, by table row.
C10_MappingParallel ==
    /\ Len(annotation_mapping) = Len(Annotations)
    /\ \A i \in DOMAIN Annotations :
          /\ Annotations[i].id = i
          /\ annotation_mapping[i].annotation_id = Annotations[i].id
          /\ annotation_mapping[i].image_id = Annotations[i].image_id
          /\ annotation_mapping[i].category_id = Annotations[i].category_id
          /\ annotation_mapping[i].bbox = Annotations[i].bbox
          /\ annotation_mapping[i].area = Annotations[i].area
    /\ \A i \in DOMAIN Annotations : \A j \in DOMAIN Annotations :
          i < j =>
             \/ Annotations[i].image_id < Annotations[j].image_id
             \/ /\ Annotations[i].image_id = Annotations[j].image_id
                /\ annotation_mapping[i].polygon_csv_idx
                      < annotation_mapping[j].polygon_csv_idx

\* a finished run with two annotations on one tile and one on a later tile
C10_Witness ==
    /\ pc = "Serialized"
    /\ \E i \in DOMAIN Annotations : \E j \in DOMAIN Annotations :
          \E k \in DOMAIN Annotations :
             /\ i < j /\ j < k
             /\ Annotations[i].image_id = Annotations[j].image_id
             /\ Annotations[j].image_id < Annotations[k].image_id

----------------------------------------------------------------------------

\* the ring of frame row number idx on a tile before and after the clamp of
\* lines 212-213: the clamped ring is the one line 216 measures
ProjectedRing(image_info, idx) ==
    polygon_to_pixel_coords(df[idx + 1].geometry, image_info.transform,
                            setup_coordinate_transformer(image_info.crs))

ComparedRing(image_info, idx) ==
    ClipCoords(ProjectedRing(image_info, idx), image_info)

\* every coordinate of a flat segmentation list lies in the tile rectangle
InsideTile(flat, image_info) ==
    \A i \in DOMAIN flat :
        /\ flat[i] >= 0
        /\ flat[i] <= (IF i % 2 = 1 THEN image_info.width
                                    ELSE image_info.height)

====
